---- MODULE Spec2Model ----
(***************************************************************************)
(* A model of the wordle analyser: the two-pass scorer WordGuess::guess    *)
(* (src/src/lib.rs), the feedback-row parser GuessStatus::try_from         *)
(* (src/src/lib.rs) and the Analyse subcommand of main (src/src/main.rs):  *)
(* header parsing, the try_fold over the transcript rows with its parallel *)
(* fan-out over the previous round's chains, and the final report.         *)
(*                                                                         *)
(* Two specifications:                                                     *)
(*   Spec      - the Analyse subcommand run on a bounded set of inputs;    *)
(*   SpecGuess - the scorer applied to every pair of words over a small    *)
(*               alphabet.                                                 *)
(***************************************************************************)
EXTENDS Integers, Sequences, FiniteSets, TLC

VARIABLES
    extend,             \* AnalyseOpt.extend
    stdin,              \* every line of standard input; the header line first
    lines,              \* the lines iterator: the lines of stdin not yet read
    pc,                 \* position of main: "start", "fold", "par", "report", "done"
    result,             \* how main ended (see Running / Returned / Panicked)
    target,             \* TARGET_WORDS[puzzle_number]; <<>> before it is set
    maybe_first_guess,  \* the 0 or 1 parse results taken from the header line
    acc,                \* the try_fold accumulator: Seq of RowAnalysis
    guess,              \* the row of the round in progress (pc = "par")
    possible_guesses,   \* possible_guesses of the round in progress
    pending,            \* chains of guess_chains whose work item has not run
    collected,          \* the pairs collected so far into possible_targets
    report,             \* the report lines printed so far
    guessWord,          \* SpecGuess: the guess handed to the scorer
    targetWord,         \* SpecGuess: the target handed to the scorer
    status              \* SpecGuess: the GuessStatus returned; <<>> before the call

vars == <<extend, stdin, lines, pc, result, target, maybe_first_guess, acc,
          guess, possible_guesses, pending, collected, report,
          guessWord, targetWord, status>>

analyseVars == <<extend, stdin, lines, pc, result, target, maybe_first_guess,
                 acc, guess, possible_guesses, pending, collected, report>>

guessVars == <<guessWord, targetWord, status>>

(***************************************************************************)
(* Bounds of the model.                                                    *)
(***************************************************************************)
\* Lines of the transcript after the header line.
MaxLines == 2
\* Entries of the answers list (TARGET_WORDS) that are modelled.
NumAnswers == 3
\* Entries of the accepted-guesses list (EXTENDED_WORDS) that are modelled.
NumAccepted == 3
\* Letters of the alphabet the scorer is checked over (SpecGuess).
NumLetters == 3

(***************************************************************************)
(* Words.                                                                  *)
(***************************************************************************)
\* The length of Word([u8; 5]) and of GuessStatus([LetterGuess; 5]).
WordLen == 5

Alphabet ==
    <<"a", "b", "c", "d", "e", "f", "g", "h", "i", "j", "k", "l", "m",
      "n", "o", "p", "q", "r", "s", "t", "u", "v", "w", "x", "y", "z">>

\* The ASCII byte of a lowercase letter.
Byte(ch) == 96 + (CHOOSE i \in 1..26 : Alphabet[i] = ch)

\* Word::try_from on a corpus word: the bytes of the text, copied.
WordOf(text) == [i \in 1..WordLen |-> Byte(text[i])]

\* The derived Ord of Word: lexicographic on the byte array.
RECURSIVE SeqLess(_, _, _)
SeqLess(a, b, i) ==
    IF i > Len(a) \/ i > Len(b) THEN Len(a) < Len(b)
    ELSE IF a[i] # b[i] THEN a[i] < b[i]
    ELSE SeqLess(a, b, i + 1)

WordLess(a, b) == SeqLess(a, b, 1)

RECURSIVE ChainLessFrom(_, _, _)
ChainLessFrom(a, b, i) ==
    IF i > Len(a) \/ i > Len(b) THEN Len(a) < Len(b)
    ELSE IF a[i] # b[i] THEN WordLess(a[i], b[i])
    ELSE ChainLessFrom(a, b, i + 1)

\* The Ord of Vec<Word>, the key order of the BTreeMap of chains.
ChainLess(a, b) == ChainLessFrom(a, b, 1)

(***************************************************************************)
(* The corpus: a sample of the two word lists of words.rs.                 *)
(***************************************************************************)
SampleAnswers ==
    << WordOf(<<"c","i","g","a","r">>), WordOf(<<"s","k","i","l","l">>),
       WordOf(<<"p","a","n","e","l">>), WordOf(<<"l","a","b","o","r">>) >>

SampleAccepted ==
    << WordOf(<<"l","a","b","e","l">>), WordOf(<<"h","u","m","p","h">>),
       WordOf(<<"h","e","a","t","h">>), WordOf(<<"s","i","s","s","y">>) >>

TARGET_WORDS == SubSeq(SampleAnswers, 1, NumAnswers)

EXTENDED_WORDS == SubSeq(SampleAccepted, 1, NumAccepted)

Range(s) == {s[i] : i \in DOMAIN s}

\* all_words: the BTreeSet of both lists.
all_words == Range(TARGET_WORDS) \cup Range(EXTENDED_WORDS)

(***************************************************************************)
(* The scorer.                                                             *)
(***************************************************************************)
Correct == "Correct"
Misplaced == "Misplaced"
NotUsed == "NotUsed"

LetterGuess == {Correct, Misplaced, NotUsed}

\* First pass: exact positions are Correct and their slot of available is zeroed.
FirstPass(g, t) ==
    [available |-> [i \in 1..WordLen |-> IF t[i] = g[i] THEN 0 ELSE t[i]],
     result    |-> [i \in 1..WordLen |-> IF t[i] = g[i] THEN Correct ELSE NotUsed]]

\* A buggy "*a = 0": the slot stays available.
ConsumeSlotNot(available, j) == available

\* "*a = 0" of the second pass: the slot is consumed.
ConsumeSlot(available, j) == [available EXCEPT ![j] = 0]

\* Second pass from guess position i on: the first available slot holding
\* the guess letter is consumed and the position is Misplaced.
RECURSIVE SecondPass(_, _, _)
SecondPass(g, st, i) ==
    IF i > WordLen THEN st
    ELSE IF st.result[i] # Correct
              /\ \E j \in 1..WordLen : st.available[j] = g[i]
         THEN LET j == CHOOSE k \in 1..WordLen :
                          /\ st.available[k] = g[i]
                          /\ \A l \in 1..(k - 1) : st.available[l] # g[i]
              IN SecondPass(g,
                            [available |-> ConsumeSlot(st.available, j),
                             result    |-> [st.result EXCEPT ![i] = Misplaced]],
                            i + 1)
         ELSE SecondPass(g, st, i + 1)

\* WordGuess::guess(guess, target).status
WordGuess_guess(g, t) == SecondPass(g, FirstPass(g, t), 1).result

\* WordGuess::guess_from(word, &target).status: the scorer of the new_set
\* filter, taken to be the scorer of the possible_guesses filter.
WordGuess_guess_from(word, t) == WordGuess_guess(word, t)

(***************************************************************************)
(* Feedback rows.  A line of text is modelled as the sequence of its       *)
(* lexemes: single characters, and the three named-emoji texts, each one   *)
(* lexeme that begins and ends with a colon.                               *)
(***************************************************************************)
GreenSquare == "U+1F7E9"
YellowSquare == "U+1F7E8"
BlackSquare == "U+2B1B"

NamedBlack == ":black_large_square:"
NamedYellow == ":large_yellow_square:"
NamedGreen == ":large_green_square:"

NamedSquares == {NamedBlack, NamedYellow, NamedGreen}

\* The characters "=+-" and the three glyphs.
AcceptedSymbols == {"=", "+", "-", GreenSquare, YellowSquare, BlackSquare}

\* The first character of a lexeme.
FirstChar(x) == IF x \in NamedSquares THEN ":" ELSE x

\* str::contains(':')
ContainsColon(value) == \E i \in DOMAIN value : FirstChar(value[i]) = ":"

\* str::replacen(from, to, n): the first n occurrences, left to right.
RECURSIVE ReplaceN(_, _, _, _)
ReplaceN(value, from, to, n) ==
    IF value = <<>> THEN <<>>
    ELSE IF n > 0 /\ Head(value) = from
         THEN <<to>> \o ReplaceN(Tail(value), from, to, n - 1)
         ELSE <<Head(value)>> \o ReplaceN(Tail(value), from, to, n)

\* How often replacen is told to replace each name.
ReplaceCount == 5

\* The match of symbols to LetterGuess values.
SymbolStatus(symbol) ==
    CASE symbol \in {"=", GreenSquare} -> Correct
      [] symbol \in {"+", YellowSquare} -> Misplaced
      [] OTHER -> NotUsed

ParseOk(val) == [kind |-> "Ok", val |-> val, ch |-> "", len |-> 0]
ParseChars(x) == [kind |-> "Chars", val |-> <<>>, ch |-> x, len |-> 0]
ParseLength(n) == [kind |-> "Length", val |-> <<>>, ch |-> "", len |-> n]

\* GuessStatus::try_from(value)
GuessStatus_try_from(value) ==
    LET v == IF ContainsColon(value)
             THEN ReplaceN(ReplaceN(ReplaceN(value, NamedBlack, "-", ReplaceCount),
                                    NamedYellow, "+", ReplaceCount),
                           NamedGreen, "=", ReplaceCount)
             ELSE value
        bad == {i \in DOMAIN v : v[i] \notin AcceptedSymbols}
    IN IF bad # {}
       THEN ParseChars(FirstChar(v[CHOOSE i \in bad : \A j \in bad : i <= j]))
       ELSE IF Len(v) # WordLen
       THEN ParseLength(Len(v))
       ELSE ParseOk([i \in 1..WordLen |-> SymbolStatus(v[i])])

AllCorrect == [i \in 1..WordLen |-> Correct]

(***************************************************************************)
(* The header line, as the sequence of its tokens (split(' ')): the        *)
(* marker word, a string; the day index, a sequence of characters; and the *)
(* rest, a sequence of lexemes.                                            *)
(***************************************************************************)
Digits == <<"0", "1", "2", "3", "4", "5", "6", "7", "8", "9">>

IsDigit(ch) == \E i \in DOMAIN Digits : Digits[i] = ch

DigitValue(ch) == (CHOOSE i \in DOMAIN Digits : Digits[i] = ch) - 1

RECURSIVE DecimalValue(_, _)
DecimalValue(digits, sofar) ==
    IF digits = <<>> THEN sofar
    ELSE DecimalValue(Tail(digits), 10 * sofar + DigitValue(Head(digits)))

\* usize::from_str: an optional "+", then one or more decimal digits.
\* (The tokens of the model are too short to overflow a usize.)
usize_from_str(token) ==
    LET digits == IF token # <<>> /\ Head(token) = "+" THEN Tail(token) ELSE token
    IN IF digits = <<>> \/ \E i \in DOMAIN digits : ~IsDigit(digits[i])
       THEN [ok |-> FALSE, val |-> 0]
       ELSE [ok |-> TRUE, val |-> DecimalValue(digits, 0)]

\* str::trim_start_matches(|char| char != ':')
RECURSIVE TrimStartToColon(_)
TrimStartToColon(rest) ==
    IF rest = <<>> \/ FirstChar(Head(rest)) = ":" THEN rest
    ELSE TrimStartToColon(Tail(rest))

\* A buggy marker test: any first token passes.
MarkerAny(wordle) == TRUE

\* wordle != "Wordle"
MarkerOk(wordle) == wordle = "Wordle"

\* A buggy maybe_first_guess: the parse error of the header's row is kept.
MaybeFirstGuessKeepsError(header) ==
    IF Len(header) >= 3 /\ ContainsColon(header[3])
    THEN <<GuessStatus_try_from(TrimStartToColon(header[3]))>>
    ELSE <<>>

\* maybe_first_guess: the row embedded in the header's third token, when
\* that token holds a colon and the text from the colon on parses.
MaybeFirstGuess(header) ==
    IF Len(header) >= 3 /\ ContainsColon(header[3])
    THEN LET g == GuessStatus_try_from(TrimStartToColon(header[3]))
         IN IF g.kind = "Ok" THEN <<g>> ELSE <<>>
    ELSE <<>>

Running == [kind |-> "Running", ch |-> "", len |-> 0]
Returned(kind) == [kind |-> kind, ch |-> "", len |-> 0]
ReturnedParseError(e) == [kind |-> e.kind, ch |-> e.ch, len |-> e.len]
PanicKinds == {"PanicIndex", "PanicUnwrap"}

\* Lines 57-67 on the lines of stdin: what the header yields.
HeaderOutcome(input) ==
    IF input = <<>> THEN [kind |-> "NotWordle", day |-> 0]
    ELSE LET parse == Head(input)
         IN IF ~MarkerOk(parse[1]) THEN [kind |-> "NotWordle", day |-> 0]
            ELSE IF Len(parse) < 2 THEN [kind |-> "NotWordle", day |-> 0]
            ELSE LET n == usize_from_str(parse[2])
                 IN IF ~n.ok THEN [kind |-> "ParseInt", day |-> 0]
                    ELSE IF n.val >= Len(TARGET_WORDS)
                    THEN [kind |-> "PanicIndex", day |-> n.val]
                    ELSE [kind |-> "Ok", day |-> n.val]

(***************************************************************************)
(* The rounds.  A map of chains is a function from a set of chains         *)
(* (sequences of words) to sets of words.                                  *)
(***************************************************************************)
EmptyMap == <<>>

\* A buggy seed: the two branches of the extend test swapped by list.
InitialGuessChainAcceptedOnly ==
    [chain \in {<<>>} |->
        IF extend THEN all_words ELSE Range(EXTENDED_WORDS)]

\* initial_guess_chain
initial_guess_chain ==
    [chain \in {<<>>} |->
        IF extend THEN all_words ELSE Range(TARGET_WORDS)]

\* possible_guesses of a round: the words that score the row against the target.
PossibleGuesses(t, row) == {w \in all_words : WordGuess_guess(w, t) = row}

\* guess_chains: the previous round's map, or the seed.
guess_chains ==
    IF acc = <<>> THEN initial_guess_chain ELSE acc[Len(acc)].possible_targets

\* A buggy new_chain: the previous chain is dropped.
NewChainDropsParent(chain, word) == <<word>>

\* new_chain: the chain with the word pushed.
NewChain(chain, word) == Append(chain, word)

\* A buggy new_set: the filter runs over the whole seed universe.
NewSetFromSeed(words, word, row) ==
    {t \in initial_guess_chain[<<>>] : WordGuess_guess_from(word, t) = row}

\* new_set: the targets of the chain's set that score the row for the word.
NewSet(words, word, row) ==
    {t \in words : WordGuess_guess_from(word, t) = row}

\* The pairs the closure of flat_map_iter yields for one (chain, words).
WorkItemPairs(chain, words) ==
    {<<NewChain(chain, word), NewSet(words, word, guess)>> : word \in possible_guesses}

\* A buggy collect: a work item's pairs replace what was collected.
CollectReplaces(map, pairs) ==
    [chain \in {p[1] : p \in pairs} |->
        (CHOOSE p \in pairs : p[1] = chain)[2]]

\* BTreeMap insertion of one work item's pairs (their keys differ).
Collect(map, pairs) ==
    [chain \in DOMAIN map \cup {p[1] : p \in pairs} |->
        IF \E p \in pairs : p[1] = chain
        THEN (CHOOSE p \in pairs : p[1] = chain)[2]
        ELSE map[chain]]

\* The keys of a map in ascending order: BTreeMap::iter.
RECURSIVE SortedChains(_)
SortedChains(chains) ==
    IF chains = {} THEN <<>>
    ELSE LET least == CHOOSE c \in chains : \A d \in chains \ {c} : ChainLess(c, d)
         IN <<least>> \o SortedChains(chains \ {least})

\* Iterator::min_by_key: of equal keys the first is kept.
RECURSIVE MinByKey(_, _, _)
MinByKey(map, keys, best) ==
    IF keys = <<>> THEN best
    ELSE MinByKey(map, Tail(keys),
                  IF Cardinality(map[Head(keys)]) < Cardinality(map[best])
                  THEN Head(keys) ELSE best)

\* A buggy max_by_key: of equal keys the first is kept.
RECURSIVE MaxByKeyFirst(_, _, _)
MaxByKeyFirst(map, keys, best) ==
    IF keys = <<>> THEN best
    ELSE MaxByKeyFirst(map, Tail(keys),
                       IF Cardinality(map[Head(keys)]) > Cardinality(map[best])
                       THEN Head(keys) ELSE best)

\* Iterator::max_by_key: of equal keys the last is kept.
RECURSIVE MaxByKey(_, _, _)
MaxByKey(map, keys, best) ==
    IF keys = <<>> THEN best
    ELSE MaxByKey(map, Tail(keys),
                  IF Cardinality(map[Head(keys)]) >= Cardinality(map[best])
                  THEN Head(keys) ELSE best)

\* The report line of one row.
ReportLine(row) ==
    LET targets == row.possible_targets
        keys == SortedChains(DOMAIN targets)
        min_path == MinByKey(targets, Tail(keys), Head(keys))
        max_path == MaxByKey(targets, Tail(keys), Head(keys))
    IN [guess |-> row.guess,
        possible |-> Cardinality(row.possible_guesses),
        min_words |-> Cardinality(targets[min_path]),
        max_words |-> Cardinality(targets[max_path]),
        min_path |-> min_path,
        max_path |-> max_path]

(***************************************************************************)
(* The Analyse subcommand.                                                 *)
(***************************************************************************)
\* The filter of the lines iterator: empty lines are passed over.
RECURSIVE SkipEmpty(_)
SkipEmpty(ls) ==
    IF ls # <<>> /\ Head(ls) = <<>> THEN SkipEmpty(Tail(ls)) ELSE ls

NoItem == [kind |-> "None", item |-> ParseOk(<<>>), first_left |-> <<>>, lines_left |-> <<>>]

\* A buggy iterator: it ends after a round whose row is all Correct.
GuessesNextFused ==
    IF acc # <<>> /\ acc[Len(acc)].guess = AllCorrect THEN NoItem
    ELSE IF maybe_first_guess # <<>>
    THEN [kind |-> "Item", item |-> Head(maybe_first_guess),
          first_left |-> Tail(maybe_first_guess), lines_left |-> lines]
    ELSE LET ls == SkipEmpty(lines)
         IN IF ls = <<>> THEN NoItem
            ELSE [kind |-> "Item", item |-> GuessStatus_try_from(Head(ls)),
                  first_left |-> <<>>, lines_left |-> Tail(ls)]

\* guesses.next(): maybe_first_guess chained with the parsed non-empty lines.
GuessesNext ==
    IF maybe_first_guess # <<>>
    THEN [kind |-> "Item", item |-> Head(maybe_first_guess),
          first_left |-> Tail(maybe_first_guess), lines_left |-> lines]
    ELSE LET ls == SkipEmpty(lines)
         IN IF ls = <<>> THEN NoItem
            ELSE [kind |-> "Item", item |-> GuessStatus_try_from(Head(ls)),
                  first_left |-> <<>>, lines_left |-> Tail(ls)]

\* main.rs 57-111: the header line is read and parsed, the target looked up
\* and the row of the header line taken.
ParseHeader ==
    /\ pc = "start"
    /\ LET h == HeaderOutcome(lines)
       IN IF h.kind = "Ok"
          THEN /\ target' = TARGET_WORDS[h.day + 1]
               /\ maybe_first_guess' = MaybeFirstGuess(Head(lines))
               /\ pc' = "fold"
               /\ UNCHANGED result
          ELSE /\ result' = Returned(h.kind)
               /\ pc' = "done"
               /\ UNCHANGED <<target, maybe_first_guess>>
    /\ lines' = IF lines = <<>> THEN <<>> ELSE Tail(lines)
    /\ UNCHANGED <<extend, stdin, acc, guess, possible_guesses, pending,
                   collected, report>>
    /\ UNCHANGED guessVars

\* main.rs 113-125: try_fold takes the next row; an Err ends main with it,
\* the end of the rows ends the fold, an Ok row opens a round.  On an Err
\* the accumulator is dropped by the code; acc keeps its last value here so
\* that the rounds analysed before the failure stay visible.  The progress
\* dots and the read errors of stdin are left out.
FoldStep ==
    /\ pc = "fold"
    /\ LET next == GuessesNext
       IN /\ maybe_first_guess' = next.first_left
          /\ lines' = next.lines_left
          /\ IF next.kind = "None"
             THEN /\ pc' = "report"
                  /\ UNCHANGED <<result, guess, possible_guesses, pending, collected>>
             ELSE IF next.item.kind # "Ok"
             THEN /\ pc' = "done"
                  /\ result' = ReturnedParseError(next.item)
                  /\ UNCHANGED <<guess, possible_guesses, pending, collected>>
             ELSE /\ pc' = "par"
                  /\ guess' = next.item.val
                  /\ possible_guesses' = PossibleGuesses(target, next.item.val)
                  /\ pending' = DOMAIN guess_chains
                  /\ collected' = EmptyMap
                  /\ UNCHANGED result
    /\ UNCHANGED <<extend, stdin, target, acc, report>>
    /\ UNCHANGED guessVars

\* main.rs 126-143: one work item of par_iter, the closure run on one
\* (chain, words) of guess_chains; its pairs go into the collected map.
\* The work items complete in any order.
WorkItem(chain) ==
    /\ pc = "par"
    /\ chain \in pending
    /\ collected' = Collect(collected, WorkItemPairs(chain, guess_chains[chain]))
    /\ pending' = pending \ {chain}
    /\ UNCHANGED <<extend, stdin, lines, pc, result, target, maybe_first_guess,
                   acc, guess, possible_guesses, report>>
    /\ UNCHANGED guessVars

\* main.rs 143-152: collect() is complete; the row is pushed.
PushRow ==
    /\ pc = "par"
    /\ pending = {}
    /\ acc' = Append(acc, [guess |-> guess,
                           possible_guesses |-> possible_guesses,
                           possible_targets |-> collected])
    /\ pc' = "fold"
    /\ guess' = <<>>
    /\ possible_guesses' = {}
    /\ collected' = EmptyMap
    /\ UNCHANGED <<extend, stdin, lines, result, target, maybe_first_guess,
                   pending, report>>
    /\ UNCHANGED guessVars

\* main.rs 158-176: the report of the next row; unwrap panics on a row
\* whose map is empty.
ReportRow ==
    /\ pc = "report"
    /\ Len(report) < Len(acc)
    /\ LET row == acc[Len(report) + 1]
       IN IF DOMAIN row.possible_targets = {}
          THEN /\ result' = Returned("PanicUnwrap")
               /\ pc' = "done"
               /\ UNCHANGED report
          ELSE /\ report' = Append(report, ReportLine(row))
               /\ UNCHANGED <<result, pc>>
    /\ UNCHANGED <<extend, stdin, lines, target, maybe_first_guess, acc,
                   guess, possible_guesses, pending, collected>>
    /\ UNCHANGED guessVars

\* main.rs 179: Ok(())
ReturnOk ==
    /\ pc = "report"
    /\ Len(report) = Len(acc)
    /\ result' = Returned("Ok")
    /\ pc' = "done"
    /\ UNCHANGED <<extend, stdin, lines, target, maybe_first_guess, acc,
                   guess, possible_guesses, pending, collected, report>>
    /\ UNCHANGED guessVars

(***************************************************************************)
(* The inputs of the model.                                                *)
(***************************************************************************)
Markers == {"Wordle", "Wordel"}

DayTokens == { <<"0">>, <<"0", "1">>, <<"+", "2">>, <<"3">>, <<"1", "x">> }

Rests ==
    { <<"3", "/", "6">>,
      <<"3", "/", "6", NamedBlack, NamedYellow, NamedBlack, NamedBlack, NamedBlack>>,
      <<"X", "/", "6", NamedBlack, NamedBlack>> }

SampleLines ==
    { <<GreenSquare, GreenSquare, GreenSquare, GreenSquare, GreenSquare>>,
      <<"-", "+", "-", "-", "-">>,
      <<NamedBlack, NamedBlack, NamedBlack, NamedBlack, NamedBlack>>,
      <<"+", "+", "+", "+", "+">>,
      <<"-", "+", "x", "-", "-">>,
      <<"=", "=", "=", "=">>,
      <<>> }

Headers ==
    {<<m>> : m \in Markers}
        \cup {<<m, d>> : m \in Markers, d \in DayTokens}
        \cup {<<m, d, r>> : m \in Markers, d \in DayTokens, r \in Rests}

Transcripts == UNION {[1..n -> SampleLines] : n \in 0..MaxLines}

Inputs == {<<>>} \cup {<<h>> \o t : h \in Headers, t \in Transcripts}

Init ==
    /\ extend \in BOOLEAN
    /\ stdin \in Inputs
    /\ lines = stdin
    /\ pc = "start"
    /\ result = Running
    /\ target = <<>>
    /\ maybe_first_guess = <<>>
    /\ acc = <<>>
    /\ guess = <<>>
    /\ possible_guesses = {}
    /\ pending = {}
    /\ collected = EmptyMap
    /\ report = <<>>
    /\ guessWord = <<>>
    /\ targetWord = <<>>
    /\ status = <<>>

Next ==
    \/ ParseHeader
    \/ FoldStep
    \/ \E chain \in pending : WorkItem(chain)
    \/ PushRow
    \/ ReportRow
    \/ ReturnOk

Spec == Init /\ [][Next]_vars

(***************************************************************************)
(* What the claims speak of, read off the input.                           *)
(***************************************************************************)
HeaderOk == HeaderOutcome(stdin).kind = "Ok"

\* The header line holds an embedded row: a third token with a colon.
HeaderRowPresent ==
    /\ stdin # <<>>
    /\ Len(Head(stdin)) >= 3
    /\ ContainsColon(Head(stdin)[3])

HeaderRowParse == GuessStatus_try_from(TrimStartToColon(Head(stdin)[3]))

\* The parse of every non-empty line after the header line.
LineParses ==
    LET nonEmpty == SelectSeq(Tail(stdin), LAMBDA l : l # <<>>)
    IN [i \in DOMAIN nonEmpty |-> GuessStatus_try_from(nonEmpty[i])]

BadLines == {i \in DOMAIN LineParses : LineParses[i].kind # "Ok"}

FirstBadLine == CHOOSE i \in BadLines : \A j \in BadLines : i <= j

ParseErrorKinds == {"Chars", "Length"}

\* The seed universe of the run.
SeedUniverse == IF extend THEN all_words ELSE Range(TARGET_WORDS)

Parent(chain) == SubSeq(chain, 1, Len(chain) - 1)

Size(map, chain) == Cardinality(map[chain])

ParsedRows ==
    (IF HeaderRowPresent /\ HeaderRowParse.kind = "Ok"
     THEN <<HeaderRowParse.val>> ELSE <<>>)
        \o [i \in DOMAIN LineParses |-> LineParses[i].val]

C2_AnyBadRowAborts ==
    (/\ pc = "done"
     /\ HeaderOk
     /\ \/ HeaderRowPresent /\ HeaderRowParse.kind # "Ok"
        \/ BadLines # {})
        => (result.kind \in ParseErrorKinds /\ report = <<>>)

\* C2 as amended: when a non-empty line after the header line fails to
\* parse, main returns the error of the first such line and reports no
\* round; a row of the header line that fails to parse is dropped, and
\* alone it never makes main return a parse error.
C2_BadLineAborts ==
    (pc = "done" /\ HeaderOk) =>
        IF BadLines # {}
        THEN /\ result = ReturnedParseError(LineParses[FirstBadLine])
             /\ report = <<>>
        ELSE result.kind \notin ParseErrorKinds

\* C2 witness: the header's row failed to parse, a round was analysed and
\* then a line failed to parse: main ended with that error and no report.
C2_Witness ==
    /\ pc = "done"
    /\ HeaderOk
    /\ HeaderRowPresent
    /\ HeaderRowParse.kind # "Ok"
    /\ acc # <<>>
    /\ result.kind \in ParseErrorKinds
    /\ report = <<>>

(***************************************************************************)
(* C4                                                                      *)
(***************************************************************************)
\* C4: every chain of round k > 1 has a set that is a subset of the set
\* round k-1 holds for the chain without its last guess; every set of the
\* first round is a subset of the seed universe.
C4_Monotone ==
    \A k \in 1..Len(acc) :
        \A chain \in DOMAIN acc[k].possible_targets :
            IF k = 1
            THEN acc[k].possible_targets[chain] \subseteq SeedUniverse
            ELSE /\ Parent(chain) \in DOMAIN acc[k - 1].possible_targets
                 /\ acc[k].possible_targets[chain]
                        \subseteq acc[k - 1].possible_targets[Parent(chain)]

\* C4 witness: a chain of the second round whose set is strictly smaller
\* than its parent's.
C4_Witness ==
    /\ Len(acc) >= 2
    /\ \E chain \in DOMAIN acc[2].possible_targets :
          /\ acc[2].possible_targets[chain] # {}
          /\ acc[2].possible_targets[chain] # acc[1].possible_targets[Parent(chain)]

(***************************************************************************)
(* C5                                                                      *)
(***************************************************************************)
MinSize(map) ==
    CHOOSE n \in {Size(map, c) : c \in DOMAIN map} :
        \A c \in DOMAIN map : n <= Size(map, c)

MaxSize(map) ==
    CHOOSE n \in {Size(map, c) : c \in DOMAIN map} :
        \A c \in DOMAIN map : n >= Size(map, c)

TiedAt(map, n) == {c \in DOMAIN map : Size(map, c) = n}

IsLeast(chain, chains) ==
    chain \in chains /\ \A d \in chains \ {chain} : ChainLess(chain, d)

IsGreatest(chain, chains) ==
    chain \in chains /\ \A d \in chains \ {chain} : ChainLess(d, chain)

\* C5 as claimed: both witness chains are the least chain among the chains
\* tied for the extreme size.
C5_BothWitnessesLeast ==
    \A i \in 1..Len(report) :
        LET map == acc[i].possible_targets
        IN /\ IsLeast(report[i].min_path, TiedAt(map, MinSize(map)))
           /\ IsLeast(report[i].max_path, TiedAt(map, MaxSize(map)))

\* C5 as amended: the witness of the minimum is the least chain among the
\* chains tied for the minimum size, and the witness of the maximum is the
\* greatest chain among the chains tied for the maximum size.
C5_MinLeastMaxGreatest ==
    \A i \in 1..Len(report) :
        LET map == acc[i].possible_targets
        IN /\ report[i].min_words = MinSize(map)
           /\ report[i].max_words = MaxSize(map)
           /\ IsLeast(report[i].min_path, TiedAt(map, MinSize(map)))
           /\ IsGreatest(report[i].max_path, TiedAt(map, MaxSize(map)))

\* C5 witness: a reported round with several chains tied for the maximum
\* size and several tied for the minimum size.
C5_Witness ==
    \E i \in 1..Len(report) :
        LET map == acc[i].possible_targets
        IN /\ Cardinality(TiedAt(map, MaxSize(map))) >= 2
           /\ Cardinality(TiedAt(map, MinSize(map))) >= 2

(***************************************************************************)
(* C6                                                                      *)
(***************************************************************************)
WrongMarker == stdin # <<>> /\ Head(stdin)[1] # "Wordle"

MissingDay == stdin # <<>> /\ Head(stdin)[1] = "Wordle" /\ Len(Head(stdin)) < 2

NonNumericDay ==
    /\ stdin # <<>>
    /\ Head(stdin)[1] = "Wordle"
    /\ Len(Head(stdin)) >= 2
    /\ ~usize_from_str(Head(stdin)[2]).ok

\* C6 as claimed: a wrong marker, a missing day index and a non-numeric
\* day index each end main with NotWordle and no round analysed.
C6_MalformedIsNotWordle ==
    (pc # "start" /\ (WrongMarker \/ MissingDay \/ NonNumericDay)) =>
        /\ result.kind = "NotWordle"
        /\ acc = <<>>

\* C6 as amended: a wrong marker and a missing day index end main with
\* NotWordle; a non-numeric day index ends main with the integer parse
\* error, not NotWordle; in each case no round is analysed or reported.
C6_MalformedHeaderErrors ==
    pc # "start" =>
        /\ (WrongMarker \/ MissingDay) =>
                result.kind = "NotWordle" /\ pc = "done" /\ acc = <<>> /\ report = <<>>
        /\ NonNumericDay =>
                result.kind = "ParseInt" /\ pc = "done" /\ acc = <<>> /\ report = <<>>

\* C6 witness: main has ended on a header with the right marker and a
\* non-numeric day index.
C6_Witness ==
    /\ pc = "done"
    /\ NonNumericDay
    /\ result.kind = "ParseInt"

(***************************************************************************)
(* C7                                                                      *)
(***************************************************************************)
NumericHeader ==
    /\ stdin # <<>>
    /\ Head(stdin)[1] = "Wordle"
    /\ Len(Head(stdin)) >= 2
    /\ usize_from_str(Head(stdin)[2]).ok

\* C7: on a header "Wordle <n>" with a numeric n and rows that all parse,
\* main never panics: it reports every round or returns an error value.
C7_NeverPanics ==
    (NumericHeader /\ BadLines = {}) => result.kind \notin PanicKinds

(***************************************************************************)
(* C8                                                                      *)
(***************************************************************************)
\* The map of a round as the chains whose work item has run determine it.
MapOfChains(chains) ==
    [key \in {Append(chain, word) : chain \in chains, word \in possible_guesses} |->
        {t \in guess_chains[Parent(key)] :
            WordGuess_guess_from(key[Len(key)], t) = guess}]

C8_CollectedIsMapOfDone ==
    pc = "par" => collected = MapOfChains(DOMAIN guess_chains \ pending)

C8_WorkItemFrame ==
    (pc = "par" /\ pc' = "par") =>
        /\ target' = target
        /\ acc' = acc
        /\ stdin' = stdin
        /\ guess' = guess
        /\ possible_guesses' = possible_guesses
        /\ \A chain \in DOMAIN collected :
              /\ chain \in DOMAIN collected'
              /\ collected'[chain] = collected[chain]

\* C8: in whatever order the work items of a round complete, the collected
\* map is the one the completed chains determine, and a work item changes
\* neither the target, the previous rounds, the round's inputs nor a pair
\* collected before it.
C8_OrderIndependent ==
    []C8_CollectedIsMapOfDone /\ [][C8_WorkItemFrame]_vars

\* C8 witness: a round with several work items, some complete and some not,
\* each yielding several pairs.
C8_Witness ==
    /\ pc = "par"
    /\ Cardinality(possible_guesses) >= 2
    /\ pending # {}
    /\ Cardinality(DOMAIN guess_chains \ pending) >= 1
    /\ DOMAIN collected # {}

(***************************************************************************)
(* C9                                                                      *)
(***************************************************************************)
\* C9: the map of a round has as many entries as the previous round's map
\* (one, for the first round) times the round's alternative guesses.
C9_EntryCount ==
    \A k \in 1..Len(acc) :
        Cardinality(DOMAIN acc[k].possible_targets)
            = (IF k = 1 THEN 1 ELSE Cardinality(DOMAIN acc[k - 1].possible_targets))
                * Cardinality(acc[k].possible_guesses)

\* C9 witness: a second round with four entries, two chains times two
\* alternative guesses.
C9_Witness ==
    /\ Len(acc) >= 2
    /\ Cardinality(DOMAIN acc[1].possible_targets) >= 2
    /\ Cardinality(acc[2].possible_guesses) >= 2
    /\ Cardinality(DOMAIN acc[2].possible_targets) >= 4

(***************************************************************************)
(* C10                                                                     *)
(***************************************************************************)
\* C10: every set of every round's map holds the target, whichever the
\* seed universe, and a reported minimum size is at least 1.
C10_TargetInEverySet ==
    /\ \A k \in 1..Len(acc) :
          \A chain \in DOMAIN acc[k].possible_targets :
              target \in acc[k].possible_targets[chain]
    /\ \A chain \in DOMAIN collected : target \in collected[chain]
    /\ \A i \in 1..Len(report) : report[i].min_words >= 1

\* C10 witness: a reported second round, seeded with both lists, with a
\* set that holds the target and another word.
C10_Witness ==
    /\ extend
    /\ Len(report) >= 2
    /\ \E chain \in DOMAIN acc[2].possible_targets :
          /\ target \in acc[2].possible_targets[chain]
          /\ Cardinality(acc[2].possible_targets[chain]) >= 2

(***************************************************************************)
(* SpecGuess: the scorer on every pair of words over NumLetters letters.   *)
(***************************************************************************)
Letters == 97..(96 + NumLetters)

Words == [1..WordLen -> Letters]

AnalyseIdle ==
    /\ extend = FALSE
    /\ stdin = <<>>
    /\ lines = <<>>
    /\ pc = "idle"
    /\ result = Running
    /\ target = <<>>
    /\ maybe_first_guess = <<>>
    /\ acc = <<>>
    /\ guess = <<>>
    /\ possible_guesses = {}
    /\ pending = {}
    /\ collected = EmptyMap
    /\ report = <<>>

InitGuess ==
    /\ AnalyseIdle
    /\ guessWord \in Words
    /\ targetWord \in Words
    /\ status = <<>>

CallGuess ==
    /\ status = <<>>
    /\ status' = WordGuess_guess(guessWord, targetWord)
    /\ UNCHANGED <<guessWord, targetWord>>
    /\ UNCHANGED analyseVars

NextGuess == CallGuess

SpecGuess == InitGuess /\ [][NextGuess]_vars

\* C3: for every guess, target and letter c, the positions of the guess that
\* hold c and are marked Correct or Misplaced are at most as many as the
\* occurrences of c in the target.
C3_MarkedAtMostTargetCount ==
    status # <<>> =>
        \A c \in Letters :
            Cardinality({i \in 1..WordLen :
                            guessWord[i] = c /\ status[i] \in {Correct, Misplaced}})
                <= Cardinality({i \in 1..WordLen : targetWord[i] = c})

\* C3 witness: a scored guess that repeats a letter more often than the
\* target holds it, with one occurrence marked and another left NotUsed.
C3_Witness ==
    /\ status # <<>>
    /\ \E i, j \in 1..WordLen :
          /\ i # j
          /\ guessWord[i] = guessWord[j]
          /\ status[i] = Misplaced
          /\ status[j] = NotUsed
          /\ \E k \in 1..WordLen : targetWord[k] = guessWord[i]

====
